---- MODULE Spec2Model ----
(***************************************************************************)
(* A model of two leaf components of OM1:                                  *)
(*                                                                         *)
(*   - GPSFabricConnector (actions/gps/connector/fabric.py): connect and   *)
(*     send_coordinates, one outbound JSON-RPC call per invocation, with   *)
(*     the classification of its outcome by the try/except dispatch;       *)
(*   - interpolate_env_vars / _interpolate_string                          *)
(*     (utils/config_interpolation.py): one re.sub pass over every string  *)
(*     leaf of a configuration tree.                                       *)
(*                                                                         *)
(* Spec is the connector, SpecInterp the interpolator.  The variables of   *)
(* the component a specification is not about stay at their initial value. *)
(***************************************************************************)
EXTENDS Integers, Sequences, FiniteSets, TLC

VARIABLES
    provider,   \* IOProvider: dynamic variable name -> optional value
    requestsRelease, \* the installed release of the requests library
    reading,    \* the locals (latitude, longitude, yaw) of the last call
    posts,      \* HTTP POSTs issued by the last call
    request,    \* optional: the JSON body of the POST of the last call
    reply,      \* optional: what requests.post did in the last call
    outcome,    \* the branch the last call ended in (its last log record)
    escaped,    \* TRUE iff the last call raised to its caller
    environ,    \* os.environ: name -> optional value
    config0,    \* the configuration given to the first pass
    prev,       \* the configuration given to the latest pass
    config,     \* the configuration returned by the latest pass
    passes      \* number of interpolate_env_vars passes applied

vars == <<provider, requestsRelease, reading, posts, request, reply, outcome, escaped,
          environ, config0, prev, config, passes>>

gpsVars == <<provider, requestsRelease, reading, posts, request, reply, outcome, escaped>>
interpVars == <<environ, config0, prev, config, passes>>

\* Python's None and a present value, as sequences of length 0 and 1.
None == <<>>
Some(v) == <<v>>

(***************************************************************************)
(* Bounds                                                                  *)
(***************************************************************************)
\* Coordinates range over 0..MaxCoord (0 is a valid, falsy, coordinate).
MaxCoord == 1
\* Input strings are concatenations of at most MaxSegs segments.
MaxSegs == 2
\* Sequences and mappings of the input trees hold at most MaxItems entries.
MaxItems == 2
\* interpolate_env_vars is applied at most MaxPasses times in a row.
MaxPasses == 2

(***************************************************************************)
(* GPSFabricConnector                                                      *)
(***************************************************************************)
\* The names under which the runtime state may hold a value.
VarNames == {"latitude", "longitude", "yaw", "yaw_deg"}

Coords == 0..MaxCoord
OptCoords == {None} \cup {Some(c) : c \in Coords}

\* The names send_coordinates passes to get_dynamic_variable, in order.
LatitudeName == "latitude"
LongitudeName == "longitude"
YawNameAsYaw == "yaw"
YawName == "yaw_deg"

\* IOProvider.get_dynamic_variable(name): the value held, or None.
get_dynamic_variable(name) == provider[name]

\* The validity check: any one None rejects the reading.
InvalidCoordinatesAll(latitude, longitude, yaw) ==
    latitude = None /\ longitude = None /\ yaw = None
InvalidCoordinates(latitude, longitude, yaw) ==
    latitude = None \/ longitude = None \/ yaw = None

RequestTimeout == 10
RequestId == 1

\* The JSON body handed to requests.post.
RequestBody(latitude, longitude, yaw) ==
    [method |-> "omp2p_shareStatus",
     params |-> <<[latitude |-> latitude, longitude |-> longitude, yaw |-> yaw]>>,
     id |-> RequestId,
     jsonrpc |-> "2.0",
     content_type |-> "application/json",
     timeout |-> RequestTimeout]

\* Exceptions, each as the set of classes an except clause can name for it.
ExcTimeout == {"Timeout", "RequestException", "Exception"}
ExcConnectionError == {"ConnectionError", "RequestException", "Exception"}
ExcHTTPError == {"HTTPError", "RequestException", "Exception"}
ExcTypeError == {"TypeError", "Exception"}
ExcRuntimeError == {"RuntimeError", "Exception"}
\* What Response.json() raises on a body that is not JSON: a plain ValueError
\* (json.JSONDecodeError) with requests < 2.27, and from 2.27 on
\* requests.exceptions.JSONDecodeError, which is an InvalidJSONError (a
\* RequestException) as well as a json.JSONDecodeError.
ExcJSONDecodeOld == {"JSONDecodeError", "ValueError", "Exception"}
ExcJSONDecodeNew == {"JSONDecodeError", "InvalidJSONError", "RequestException",
                     "ValueError", "Exception"}
JsonLibs == {"requests<2.27", "requests>=2.27"}
JsonDecodeError(lib) ==
    IF lib = "requests>=2.27" THEN ExcJSONDecodeNew ELSE ExcJSONDecodeOld

\* JSON values a `result` member may hold, and Python's truth of each.
ResultValues == {"true", "false", "0", "1", "null", "emptystring"}
Truthy(v) == v \in {"true", "1"}

\* Response bodies.  `has` is the set of x among "error" and "result" for which
\* Python's `x in response` is True: the keys of an object, the substrings of
\* a string, the elements of an array.
Members == SUBSET {"error", "result"}
Bodies ==
    {[kind |-> "invalid", has |-> {}, result |-> "null"]}
    \cup {[kind |-> k, has |-> {}, result |-> "null"] : k \in {"number", "bool", "null"}}
    \cup {[kind |-> k, has |-> h, result |-> "null"] :
            k \in {"string", "array"}, h \in Members}
    \cup {[kind |-> "object", has |-> h, result |-> "null"] :
            h \in {{}, {"error"}}}
    \cup {[kind |-> "object", has |-> h, result |-> v] :
            h \in {{"result"}, {"error", "result"}}, v \in ResultValues}

Statuses == {101, 200, 204, 304, 404, 500}

\* What requests.post can do: raise, or return a response.
Replies ==
    {[kind |-> k, status |-> 0, body |-> [kind |-> "invalid", has |-> {}, result |-> "null"]] :
        k \in {"timeout", "connection_error", "runtime_error"}}
    \cup {[kind |-> "response", status |-> s, body |-> b] :
            s \in Statuses, b \in Bodies}

\* Response.raise_for_status(): HTTPError for 4xx and 5xx, nothing otherwise.
raise_for_status(status) == 400 <= status /\ status < 600

\* `key in response`: TypeError for a number, a boolean and null.
ContainsRaises(response) == response.kind \in {"number", "bool", "null"}
Contains(response, key) == key \in response.has
\* `response[key]`: TypeError for a string and an array indexed by a string.
GetItemRaises(response) == response.kind # "object"

\* Lines 105-121: the outcome for a parsed body, or the exception raised.
ResultFirst(response) ==
    IF ContainsRaises(response) THEN [exc |-> ExcTypeError, outcome |-> ""]
    ELSE IF Contains(response, "result") /\ GetItemRaises(response)
        THEN [exc |-> ExcTypeError, outcome |-> ""]
    ELSE IF Contains(response, "result") /\ Truthy(response.result)
        THEN [exc |-> {}, outcome |-> "Success"]
    ELSE IF Contains(response, "error")
        THEN IF GetItemRaises(response)
             THEN [exc |-> ExcTypeError, outcome |-> ""]
             ELSE [exc |-> {}, outcome |-> "RpcError"]
    ELSE [exc |-> {}, outcome |-> "MalformedResponse"]
Classify(response) ==
    IF ContainsRaises(response) THEN [exc |-> ExcTypeError, outcome |-> ""]
    ELSE IF Contains(response, "error")
        THEN IF GetItemRaises(response)
             THEN [exc |-> ExcTypeError, outcome |-> ""]
             ELSE [exc |-> {}, outcome |-> "RpcError"]
    ELSE IF Contains(response, "result")
        THEN IF GetItemRaises(response)
             THEN [exc |-> ExcTypeError, outcome |-> ""]
             ELSE IF Truthy(response.result)
                  THEN [exc |-> {}, outcome |-> "Success"]
                  ELSE [exc |-> {}, outcome |-> "MalformedResponse"]
    ELSE [exc |-> {}, outcome |-> "MalformedResponse"]

\* Lines 85-121: the body of the try statement.
TryBody(r, lib) ==
    IF r.kind = "timeout" THEN [exc |-> ExcTimeout, outcome |-> ""]
    ELSE IF r.kind = "connection_error" THEN [exc |-> ExcConnectionError, outcome |-> ""]
    ELSE IF r.kind = "runtime_error" THEN [exc |-> ExcRuntimeError, outcome |-> ""]
    ELSE IF raise_for_status(r.status) THEN [exc |-> ExcHTTPError, outcome |-> ""]
    ELSE IF r.body.kind = "invalid" THEN [exc |-> JsonDecodeError(lib), outcome |-> ""]
    ELSE Classify(r.body)

\* Lines 123-140: the except clauses, in the order they are tried.
Handlers ==
    << [class |-> "Timeout", outcome |-> "NetworkError"],
       [class |-> "HTTPError", outcome |-> "HttpError"],
       [class |-> "RequestException", outcome |-> "NetworkError"],
       [class |-> "ValueError", outcome |-> "MalformedResponse"],
       [class |-> "Exception", outcome |-> "UnexpectedError"] >>

\* The first except clause that names a class of the exception.
Dispatch(exc) ==
    LET hit == {i \in DOMAIN Handlers : Handlers[i].class \in exc}
        first == CHOOSE i \in hit : \A j \in hit : i <= j
    IN  Handlers[first].outcome

\* The outcome of the try statement as a whole.
TryOutcome(r, lib) ==
    LET t == TryBody(r, lib)
    IN  IF t.exc = {} THEN t.outcome ELSE Dispatch(t.exc)

NoReading == [latitude |-> None, longitude |-> None, yaw |-> None]

\* send_coordinates, for every behaviour of its collaborators: the runtime
\* state provider raises or answers, and requests.post raises or returns.
send_coordinates ==
    \/ \* get_dynamic_variable raises: lines 69-71 are outside the try statement
       /\ reading' = NoReading
       /\ posts' = 0
       /\ request' = None
       /\ reply' = None
       /\ outcome' = "Raised"
       /\ escaped' = TRUE
    \/ LET latitude == get_dynamic_variable(LatitudeName)
           longitude == get_dynamic_variable(LongitudeName)
           yaw == get_dynamic_variable(YawName)
       IN  /\ reading' = [latitude |-> latitude, longitude |-> longitude, yaw |-> yaw]
           /\ escaped' = FALSE
           /\ IF InvalidCoordinates(latitude, longitude, yaw)
              THEN /\ posts' = 0
                   /\ request' = None
                   /\ reply' = None
                   /\ outcome' = "RejectedInvalidInput"
              ELSE \E r \in Replies :
                   /\ posts' = 1
                   /\ request' = Some(RequestBody(latitude, longitude, yaw))
                   /\ reply' = Some(r)
                   /\ outcome' = TryOutcome(r, requestsRelease)

GPSActions == {"share location", "idle"}

\* connect(output_interface)
connect ==
    \E action \in GPSActions :
        /\ IF action = "share location"
           THEN send_coordinates
           ELSE /\ reading' = NoReading
                /\ posts' = 0
                /\ request' = None
                /\ reply' = None
                /\ outcome' = "NotRequested"
                /\ escaped' = FALSE
        /\ UNCHANGED <<provider, requestsRelease, interpVars>>

(***************************************************************************)
(* Environment variable interpolation                                      *)
(***************************************************************************)
\* Strings are sequences of one-character strings.
NL == "\n"

\* pattern = r"\$\{([^}:]+)(?::-(.*?))?\}", piece by piece.
NameCharNoDollar(c) == c \notin {"}", ":", "$"}
NameChar(c) == c \notin {"}", ":"}          \* [^}:]
DefaultChar(c) == c # NL                    \* .  (no DOTALL flag)

At(s, i) == IF i \in 1..Len(s) THEN s[i] ELSE ""

\* (?::-(.*?))?\}  tried right after a name ending at e: the optional group
\* first, its lazy default up to the nearest closing brace; without the
\* group, the closing brace at once.  None when neither way matches.
TailMatch(s, e) ==
    LET closers == {c \in (e + 3)..Len(s) :
                       /\ s[c] = "}"
                       /\ \A k \in (e + 3)..(c - 1) : DefaultChar(s[k])}
        close == CHOOSE c \in closers : \A d \in closers : c <= d
    IN  IF At(s, e + 1) = ":" /\ At(s, e + 2) = "-" /\ closers # {}
        THEN Some([end |-> close, default |-> Some(SubSeq(s, e + 3, close - 1))])
        ELSE IF At(s, e + 1) = "}"
        THEN Some([end |-> e + 1, default |-> None])
        ELSE None

\* The pattern tried at position i: the match object, or None.  The name is
\* greedy: the longest name after which the rest of the pattern matches.
MatchAt(s, i) ==
    LET nameEnds == {e \in (i + 2)..Len(s) :
                        /\ \A k \in (i + 2)..e : NameChar(s[k])
                        /\ TailMatch(s, e) # None}
        e == CHOOSE x \in nameEnds : \A y \in nameEnds : y <= x
        t == TailMatch(s, e)[1]
    IN  IF At(s, i) = "$" /\ At(s, i + 1) = "{" /\ nameEnds # {}
        THEN Some([start |-> i, end |-> t.end,
                   group0 |-> SubSeq(s, i, t.end),
                   group1 |-> SubSeq(s, i + 2, e),
                   group2 |-> t.default])
        ELSE None

\* os.environ.get(var_name)
EnvironGet(var_name) ==
    IF var_name \in DOMAIN environ THEN environ[var_name] ELSE None

\* replacer(match)
replacer_truthy(match) ==
    LET env_value == EnvironGet(match.group1)
    IN  IF env_value # None /\ env_value[1] # <<>> THEN env_value[1]
        ELSE IF match.group2 # None /\ match.group2[1] # <<>> THEN match.group2[1]
        ELSE match.group0
replacer(match) ==
    LET env_value == EnvironGet(match.group1)
        default_value == match.group2
    IN  IF env_value # None THEN env_value[1]
        ELSE IF default_value # None THEN default_value[1]
        ELSE match.group0

\* re.sub(pattern, replacer, value) from position i on: the leftmost match is
\* replaced and the scan resumes after it; other characters are copied.
RECURSIVE SubFrom(_, _)
SubFrom(s, i) ==
    IF i > Len(s) THEN <<>>
    ELSE LET m == MatchAt(s, i)
         IN  IF m # None
             THEN replacer(m[1]) \o SubFrom(s, m[1].end + 1)
             ELSE <<s[i]>> \o SubFrom(s, i + 1)

\* re.sub(pattern, replacer, value, count=1): only the first match.
RECURSIVE SubFirstFrom(_, _)
SubFirstFrom(s, i) ==
    IF i > Len(s) THEN <<>>
    ELSE LET m == MatchAt(s, i)
         IN  IF m # None
             THEN replacer(m[1]) \o SubSeq(s, m[1].end + 1, Len(s))
             ELSE <<s[i]>> \o SubFirstFrom(s, i + 1)
interpolate_string_first_only(value) == SubFirstFrom(value, 1)

\* _interpolate_string(value)
_interpolate_string(value) == SubFrom(value, 1)

\* Configuration values.
Str(s) == [t |-> "str", s |-> s, keys |-> <<>>, items |-> <<>>]
Scalar(kind, text) == [t |-> kind, s |-> text, keys |-> <<>>, items |-> <<>>]
List(items) == [t |-> "list", s |-> <<>>, keys |-> <<>>, items |-> items]
Dict(keys, items) == [t |-> "dict", s |-> <<>>, keys |-> keys, items |-> items]

\* The keys of the mapping the dict comprehension builds.
DictKeysInterpolated(c) == [i \in DOMAIN c.keys |-> _interpolate_string(c.keys[i])]
DictKeys(c) == c.keys

\* interpolate_env_vars(config)
RECURSIVE interpolate_env_vars(_)
interpolate_env_vars(c) ==
    IF c.t = "str" THEN Str(_interpolate_string(c.s))
    ELSE IF c.t = "dict"
        THEN Dict(DictKeys(c), [i \in DOMAIN c.items |-> interpolate_env_vars(c.items[i])])
    ELSE IF c.t = "list"
        THEN List([i \in DOMAIN c.items |-> interpolate_env_vars(c.items[i])])
    ELSE c

(***************************************************************************)
(* Inputs of the interpolator                                              *)
(***************************************************************************)
NameA == <<"A">>
NameB == <<"B">>
Open == <<"$", "{">>
Close == <<"}">>
Placeholder(name) == Open \o name \o Close
PlaceholderDefault(name, default) == Open \o name \o <<":", "-">> \o default \o Close

Unclosed == Open \o NameA                                        \* ${A
UnclosedDefault == Open \o NameA \o <<":", "-">>                 \* ${A:-
NestedDefault == PlaceholderDefault(NameA, Open \o NameB) \o Close  \* ${A:-${B}}
NestedName == Open \o NameA \o Placeholder(NameB) \o Close       \* ${A${B}}

Segments ==
    { <<"x">>, <<"$">>, <<"}">>,
      Placeholder(NameA), Placeholder(NameB),
      PlaceholderDefault(NameA, <<>>), PlaceholderDefault(NameB, <<"d">>),
      PlaceholderDefault(NameA, <<NL>>),
      Unclosed, UnclosedDefault, NestedDefault, NestedName }

RECURSIVE StringsUpTo(_)
StringsUpTo(k) ==
    IF k = 0 THEN {<<>>}
    ELSE LET shorter == StringsUpTo(k - 1)
         IN  shorter \cup {p \o g : p \in shorter, g \in Segments}

Strings == StringsUpTo(MaxSegs)

\* The environment: A and B, each unset, empty, plain, or itself a placeholder.
EnvNames == {NameA, NameB}
EnvValues == {None, Some(<<>>), Some(<<"v">>), Some(Placeholder(NameB))}
Environs == [EnvNames -> EnvValues]

\* Trees: leaves, then sequences and mappings of leaves, then one more level.
Leaves ==
    {Str(s) : s \in {<<"x">>, Placeholder(NameA), PlaceholderDefault(NameB, <<"d">>)}}
    \cup {Scalar("number", <<"0">>), Scalar("bool", <<"t">>), Scalar("null", <<>>)}
Keys == {<<"k">>, Placeholder(NameA)}
KeySeqs ==
    {ks \in UNION {[1..n -> Keys] : n \in 0..MaxItems} :
        \A i, j \in DOMAIN ks : i # j => ks[i] # ks[j]}
Level1 ==
    {List(items) : items \in UNION {[1..n -> Leaves] : n \in 0..MaxItems}}
    \cup UNION {{Dict(ks, items) : items \in [DOMAIN ks -> Leaves]} : ks \in KeySeqs}
Level2 ==
    {List(<<c>>) : c \in Level1}
    \cup {Dict(<<k>>, <<c>>) : k \in Keys, c \in Level1}
Configs == {Str(s) : s \in Strings} \cup Leaves \cup Level1 \cup Level2

InitInterpIdle ==
    /\ environ = <<>>
    /\ config0 = None
    /\ prev = None
    /\ config = None
    /\ passes = 0

Init ==
    /\ provider \in [VarNames -> OptCoords]
    /\ requestsRelease \in JsonLibs
    /\ reading = NoReading
    /\ posts = 0
    /\ request = None
    /\ reply = None
    /\ outcome = "NotRequested"
    /\ escaped = FALSE
    /\ InitInterpIdle

Next == connect

Spec == Init /\ [][Next]_vars

InitInterp ==
    /\ provider = [n \in VarNames |-> None]
    /\ requestsRelease = "requests>=2.27"
    /\ reading = NoReading
    /\ posts = 0
    /\ request = None
    /\ reply = None
    /\ outcome = "NotRequested"
    /\ escaped = FALSE
    /\ environ \in Environs
    /\ config0 \in Configs
    /\ prev = config0
    /\ config = config0
    /\ passes = 0

\* One call of interpolate_env_vars on the configuration the last call returned.
Interpolate ==
    /\ passes < MaxPasses
    /\ prev' = config
    /\ config' = interpolate_env_vars(config)
    /\ passes' = passes + 1
    /\ UNCHANGED <<environ, config0, gpsVars>>

NextInterp == Interpolate

SpecInterp == InitInterp /\ [][NextInterp]_vars

(***************************************************************************)
(* Claims about the connector (specification Spec)                         *)
(***************************************************************************)
Called == outcome \notin {"NotRequested", "Raised"}
Responded == reply # None /\ reply[1].kind = "response"
Status == reply[1].status
Body == reply[1].body
Is2xx(status) == 200 <= status /\ status < 300
AnyNone(r) == r.latitude = None \/ r.longitude = None \/ r.yaw = None

\* C1: a call that fetched a reading with any of latitude, longitude, yaw None
\* ends as RejectedInvalidInput with no HTTP request; every other call (0 is a
\* value) issues exactly one POST, also when that POST fails.
C1_ValidityAndSingleAttempt ==
    Called =>
        /\ AnyNone(reading) =>
              /\ outcome = "RejectedInvalidInput"
              /\ posts = 0
              /\ request = None
        /\ ~AnyNone(reading) =>
              /\ outcome # "RejectedInvalidInput"
              /\ posts = 1
              /\ request # None

C1_Witness ==
    /\ reading = [latitude |-> None, longitude |-> Some(1), yaw |-> Some(0)]
    /\ outcome = "RejectedInvalidInput"
    /\ posts = 0

\* The members of a body that is a JSON object; no other body has keys.
KeysOf(body) == IF body.kind = "object" THEN body.has ELSE {}
Priority(body) ==
    IF "error" \in KeysOf(body) THEN "RpcError"
    ELSE IF "result" \in KeysOf(body) /\ Truthy(body.result) THEN "Success"
    ELSE "MalformedResponse"

\* C2 as stated: for every 2xx response whose body parses as JSON the outcome
\* is RpcError if the body has a key `error`, else Success if it has a truthy
\* `result`, else MalformedResponse.
C2_Original ==
    (Responded /\ Is2xx(Status) /\ Body.kind # "invalid") => outcome = Priority(Body)

\* C2 amended: the priority order decides the outcome of every 2xx response
\* whose body parses as a JSON object, and Success is never reported for a
\* body that contains `error`.
C2_ObjectPriority ==
    /\ (Responded /\ Is2xx(Status) /\ Body.kind = "object") => outcome = Priority(Body)
    /\ (Responded /\ "error" \in Body.has) => outcome # "Success"

C2_Witness ==
    /\ Responded
    /\ Status = 200
    /\ Body = [kind |-> "object", has |-> {"error", "result"}, result |-> "true"]
    /\ outcome = "RpcError"

\* C3: every response whose status is not 2xx (1xx, 3xx, 4xx, 5xx) ends as
\* HttpError, whatever its body.
C3_NonSuccessStatusIsHttpError ==
    (Responded /\ ~Is2xx(Status)) => outcome = "HttpError"

\* C4: a 2xx response whose body fails to parse as JSON ends as
\* MalformedResponse.
C4_InvalidJsonIsMalformed ==
    (Responded /\ Is2xx(Status) /\ Body.kind = "invalid") => outcome = "MalformedResponse"

\* C5: no call lets an exception escape to its caller, whatever the
\* collaborators do.
C5_NoExceptionEscapes == ~escaped

\* C10 as stated: a provider holding non-None values under latitude, longitude
\* and yaw is never rejected, and the request carries those three values.
C10_Original ==
    (Called /\ provider["latitude"] # None /\ provider["longitude"] # None
            /\ provider["yaw"] # None) =>
        /\ outcome # "RejectedInvalidInput"
        /\ request = Some(RequestBody(provider["latitude"], provider["longitude"],
                                      provider["yaw"]))

\* C10 amended: the reading is fetched under the names latitude, longitude and
\* yaw_deg; a provider holding non-None values under those three names is
\* never rejected, and the request's params object carries them as latitude,
\* longitude and yaw.
C10_FetchedNames ==
    (Called /\ provider["latitude"] # None /\ provider["longitude"] # None
            /\ provider["yaw_deg"] # None) =>
        /\ outcome # "RejectedInvalidInput"
        /\ request = Some(RequestBody(provider["latitude"], provider["longitude"],
                                      provider["yaw_deg"]))

C10_Witness ==
    /\ provider["yaw"] = None
    /\ provider["yaw_deg"] = Some(1)
    /\ posts = 1
    /\ request # None
    /\ request[1].params[1].yaw = Some(1)

(***************************************************************************)
(* Claims about the interpolator (specification SpecInterp)                *)
(***************************************************************************)
\* The non-overlapping matches of the pattern in s, left to right.
RECURSIVE MatchesFrom(_, _)
MatchesFrom(s, i) ==
    IF i > Len(s) THEN <<>>
    ELSE LET m == MatchAt(s, i)
         IN  IF m # None THEN <<m[1]>> \o MatchesFrom(s, m[1].end + 1)
             ELSE MatchesFrom(s, i + 1)
Matches(s) == MatchesFrom(s, 1)

\* Resolution by presence: the variable if set, else the default if written,
\* else the placeholder as written.
Resolved(m) ==
    IF m.group1 \in DOMAIN environ /\ environ[m.group1] # None THEN environ[m.group1][1]
    ELSE IF m.group2 # None THEN m.group2[1]
    ELSE m.group0

\* s with each of the matches ms[k..] resolved and the text between kept.
RECURSIVE Rebuild(_, _, _, _)
Rebuild(s, ms, k, pos) ==
    IF k > Len(ms) THEN SubSeq(s, pos, Len(s))
    ELSE SubSeq(s, pos, ms[k].start - 1) \o Resolved(ms[k])
         \o Rebuild(s, ms, k + 1, ms[k].end + 1)

\* C6: every matched placeholder is resolved by presence (a variable set to
\* the empty string wins over the default, an empty default is a default), the
\* text outside the matches is kept and each match is resolved on its own.
C6_ResolutionByPresence ==
    (passes >= 1 /\ prev.t = "str") =>
        /\ config.t = "str"
        /\ config.s = Rebuild(prev.s, Matches(prev.s), 1, 1)

C6_Witness ==
    /\ passes = 1
    /\ prev = Str(<<"x">> \o PlaceholderDefault(NameB, <<"d">>))
    /\ environ[NameB] = Some(<<>>)
    /\ config = Str(<<"x">>)

\* C7 as stated: a second pass with the same environment changes nothing.
C7_Original == passes >= 2 => config = prev

Chars(s) == {s[i] : i \in DOMAIN s}
EnvironHasNoDollar ==
    \A n \in DOMAIN environ : environ[n] # None => "$" \notin Chars(environ[n][1])
DollarsStartMatches(s) ==
    \A i \in DOMAIN s :
        s[i] = "$" => \E k \in DOMAIN Matches(s) : Matches(s)[k].start = i
RECURSIVE EveryDollarStartsMatch(_)
EveryDollarStartsMatch(c) ==
    IF c.t = "str" THEN DollarsStartMatches(c.s)
    ELSE \A i \in DOMAIN c.items : EveryDollarStartsMatch(c.items[i])

\* C7 amended: a second pass with the same environment changes nothing when no
\* environment value contains `$` and every `$` of the strings of the input
\* starts a placeholder the pattern matches (so no name or default holds one).
C7_IdempotentWithoutDollars ==
    (passes >= 2 /\ EnvironHasNoDollar /\ EveryDollarStartsMatch(config0)) => config = prev

C7_Witness ==
    /\ passes = 2
    /\ config0 = Str(Placeholder(NameA) \o Placeholder(NameB))
    /\ environ[NameA] = Some(<<"v">>)
    /\ environ[NameB] = None
    /\ prev = Str(<<"v">> \o Placeholder(NameB))
    /\ config = prev

RECURSIVE SameShape(_, _)
SameShape(a, b) ==
    /\ b.t = a.t
    /\ a.t \in {"dict", "list"} =>
          /\ b.keys = a.keys
          /\ Len(b.items) = Len(a.items)
          /\ \A i \in DOMAIN a.items : SameShape(a.items[i], b.items[i])
    /\ a.t \notin {"dict", "list", "str"} => b = a

\* C8: a pass keeps the shape of its input at every depth (same keys,
\* uninterpolated, in the same order; same length and order of a sequence;
\* scalars untouched) and leaves the environment as it was.
C8_ShapePreserved ==
    [][SameShape(config, config') /\ environ' = environ]_vars

C8_Witness ==
    /\ passes = 1
    /\ environ[NameA] = Some(<<"v">>)
    /\ prev = Dict(<<Placeholder(NameA)>>,
                   <<List(<<Str(Placeholder(NameA)), Scalar("number", <<"0">>)>>)>>)
    /\ config = Dict(<<Placeholder(NameA)>>,
                     <<List(<<Str(<<"v">>), Scalar("number", <<"0">>)>>)>>)

\* C9 as stated: a string with an unclosed or a nested placeholder comes back
\* unchanged for every environment, the pattern matching no part of it.
C9_Original ==
    (passes = 1 /\ prev \in {Str(Unclosed), Str(UnclosedDefault),
                             Str(NestedDefault), Str(NestedName)}) =>
        config = prev

\* C9 amended: a string in which no `}` closes the brace is matched nowhere
\* and comes back unchanged for every environment; a nested placeholder is
\* matched from its `${` to the first `}`: ${A:-${B}} as A with the default
\* `${B`, and ${A${B}} as the variable named `A${B`.
C9_UnclosedIsLiteral ==
    (passes >= 1 /\ prev.t = "str") =>
        /\ "}" \notin Chars(prev.s) => (Matches(prev.s) = <<>> /\ config = prev)
        /\ prev.s = NestedDefault =>
              Matches(prev.s) = << [start |-> 1, end |-> 9,
                                    group0 |-> PlaceholderDefault(NameA, Open \o NameB),
                                    group1 |-> NameA,
                                    group2 |-> Some(Open \o NameB)] >>
        /\ prev.s = NestedName =>
              Matches(prev.s) = << [start |-> 1, end |-> 7,
                                    group0 |-> Placeholder(NameA \o Open \o NameB),
                                    group1 |-> NameA \o Open \o NameB,
                                    group2 |-> None] >>

C9_Witness ==
    /\ passes = 1
    /\ prev = Str(Unclosed \o UnclosedDefault)
    /\ environ[NameA] = Some(<<"v">>)
    /\ config = prev

====
